---- MODULE Spec2Model ----
(***************************************************************************)
(* State-machine model of the invoice generator API:                       *)
(*   app/api/auth.py      register, login                                  *)
(*   app/api/users.py     update_user_profile                              *)
(*   app/api/invoices.py  create, get, download, send-email, update,       *)
(*                        delete                                           *)
(*   app/utils/helpers.py validate_email_rate_limit,                       *)
(*                        generate_invoice_number                          *)
(*   app/services/auth_service.py  hash_password, verify_password,         *)
(*                        create_access_token                              *)
(* Every handler is an `async def` without an await between its database   *)
(* reads and its commit, so one handler is one atomic action.  Time is     *)
(* counted in minutes, money in cents, rates in whole percent.             *)
(***************************************************************************)
EXTENDS Integers, Sequences, FiniteSets, TLC

VARIABLES
    users,      \* table "users": sequence of rows, the id is the index
    accepted,   \* history: the requests register answered 201 for, with the new id
    invoices,   \* table "invoices": function from id to row
    nextId,     \* next value of the invoices id sequence (PostgreSQL)
    files,      \* the upload and QR directories: function from path to content
    tasks,      \* background email tasks scheduled and not yet run
    deleted,    \* history: the (user, id) pairs delete answered 204 for
    issued,     \* history: the invoice numbers of the rows create has stored
    settings,   \* the settings object, loaded from the environment at startup
    tokens,     \* tokens made with a chosen lifetime and kept by their holder
    now,        \* the UTC wall clock, in minutes
    tz,         \* offset of the server's local time to UTC, in minutes
    resp        \* the last request and its HTTP response

vars == <<users, accepted, invoices, nextId, files, tasks, deleted, issued,
          settings, tokens, now, tz, resp>>

authVars == <<users, accepted>>
invVars  == <<invoices, nextId, files, tasks, deleted, issued>>
envVars  == <<settings, tokens, now, tz>>

----------------------------------------------------------------------------
(* Bounds of the model *)

MaxUsers    == 2      \* rows the users table may hold
MaxInvoices == 2      \* invoice ids the sequence may issue
MaxTime     == 90     \* last minute the clock reaches
MaxTokens   == 2      \* tokens kept for later verification
MaxNameLen  == 4      \* characters of a generated file name

(* Program constants *)

EMAIL_RATE_LIMIT            == 5    \* default of settings.EMAIL_RATE_LIMIT
ACCESS_TOKEN_EXPIRE_MINUTES == 30   \* settings.ACCESS_TOKEN_EXPIRE_MINUTES
RateLimitHours              == 1    \* validate_email_rate_limit(hours=1)
BcryptMaxBytes              == 72   \* the 72-byte ceiling of hash_password
Sha256HexLen                == 64   \* length of hashlib.sha256(...).hexdigest()
DefaultMaxLength            == 255  \* max_length of sanitize_filename

----------------------------------------------------------------------------
(* Request inputs *)

Emails    == {"a@x.io", "b@x.io"}
Usernames == {"alice", "Alice", "bob"}

\* A password is its text and the byte length of its UTF-8 encoding.  The
\* last one is the text of the SHA-256 hex digest of the 100-byte password.
Passwords ==
    { [text |-> "short8",          bytes |-> 8],
      [text |-> "exact72",         bytes |-> 72],
      [text |-> "long100",         bytes |-> 100],
      [text |-> "sha256(long100)", bytes |-> Sha256HexLen] }

\* hashlib.sha256(password.encode('utf-8')).hexdigest()
Sha256Hex(p) == [text |-> "sha256(" \o p.text \o ")", bytes |-> Sha256HexLen]

\* the pre-hash rule shared by hash_password and verify_password
PreHash(p) == IF p.bytes > BcryptMaxBytes THEN Sha256Hex(p) ELSE p

\* pwd_context.hash: bcrypt of the (pre-hashed) secret
hash_password(p) == [bcrypt |-> PreHash(p)]

\* variant: verify compares the password as it was typed
verify_password_NoPreHash(p, h) == h.bcrypt = p

\* pwd_context.verify
verify_password(p, h) == h.bcrypt = PreHash(p)

----------------------------------------------------------------------------
(* The clocks *)

\* datetime.now(): the server's local time
LocalNow == now + tz

\* datetime.utcnow()
UtcNow == now

----------------------------------------------------------------------------
(* app/api/auth.py *)

UserIds == 1..Len(users)

\* variant: the email lookup never finds a row
EmailTaken_Never(e) == FALSE

EmailTaken(e)    == \E i \in UserIds : users[i].email = e

\* variant: the username lookup never finds a row
UsernameTaken_Never(n) == FALSE

UsernameTaken(n) == \E i \in UserIds : users[i].username = n

\* str.lower() on the usernames of the model
Lower(n) == IF n = "Alice" THEN "alice" ELSE n

\* variant: the username is lower-cased before it is stored
StoredUsername_Lowercased(n) == Lower(n)

\* the schema the endpoint reads (app/schemas/auth.py) keeps the username
\* as it was sent
StoredUsername(n) == n

\* POST /auth/register
Register(e, n, p) ==
    /\ UNCHANGED <<invVars, envVars>>
    /\ IF EmailTaken(e)
       THEN /\ resp' = [op |-> "register", status |-> 400,
                        detail |-> "Email already registered",
                        email |-> e, username |-> n, rows |-> Len(users)]
            /\ UNCHANGED authVars
       ELSE IF UsernameTaken(StoredUsername(n))
       THEN /\ resp' = [op |-> "register", status |-> 400,
                        detail |-> "Username already taken",
                        email |-> e, username |-> n, rows |-> Len(users)]
            /\ UNCHANGED authVars
       ELSE /\ Len(users) < MaxUsers
            /\ users' = Append(users,
                    [email |-> e, username |-> StoredUsername(n),
                     hashed_password |-> hash_password(p),
                     full_name |-> "", is_active |-> TRUE])
            /\ accepted' = accepted \cup
                    {[username |-> n, password |-> p, id |-> Len(users) + 1]}
            /\ resp' = [op |-> "register", status |-> 201, detail |-> "",
                        email |-> e, username |-> n, rows |-> Len(users)]

\* the row login reads: db.query(User).filter(User.username == n).first()
UserByUsername(n) == CHOOSE i \in UserIds : users[i].username = n

\* an expires_delta argument: NoDelta for None, <<m>> for
\* timedelta(minutes=m)
NoDelta == <<>>

\* `if expires_delta:` - None and timedelta(0) are both false
DeltaIsTrue(expires_delta) ==
    expires_delta # NoDelta /\ expires_delta[1] # 0

\* create_access_token(data, expires_delta): the claims with "exp" added,
\* signed with settings.SECRET_KEY
create_access_token(sub, uid, expires_delta) ==
    LET expire == IF DeltaIsTrue(expires_delta)
                  THEN UtcNow + expires_delta[1]
                  ELSE UtcNow + ACCESS_TOKEN_EXPIRE_MINUTES
    IN  [kind |-> "jwt", key |-> "SECRET_KEY",
         sub |-> sub, user_id |-> uid, exp |-> expire]

\* decode_access_token(token): <<payload>>, or <<>> for None.  jwt.decode
\* raises JWTError for a string that is no JWT, for a signature made with
\* another key, and for "exp" earlier than the current time.
decode_access_token(token) ==
    IF token.kind # "jwt" THEN <<>>
    ELSE IF token.key # "SECRET_KEY" THEN <<>>
    ELSE IF token.exp < UtcNow THEN <<>>
    ELSE << [sub |-> token.sub, user_id |-> token.user_id, exp |-> token.exp] >>

\* variant: the is_active test is made before the password test
LoginOutcome_ActiveFirst(n, p) ==
    IF ~UsernameTaken(n)
    THEN [status |-> 401, detail |-> "Incorrect username or password",
          token_type |-> "", token |-> <<>>]
    ELSE IF ~users[UserByUsername(n)].is_active
    THEN [status |-> 403, detail |-> "User account is inactive",
          token_type |-> "", token |-> <<>>]
    ELSE IF ~verify_password(p, users[UserByUsername(n)].hashed_password)
    THEN [status |-> 401, detail |-> "Incorrect username or password",
          token_type |-> "", token |-> <<>>]
    ELSE [status |-> 200, detail |-> "", token_type |-> "bearer",
          token |-> <<create_access_token(users[UserByUsername(n)].username,
                                          UserByUsername(n),
                                          <<ACCESS_TOKEN_EXPIRE_MINUTES>>)>>]

\* variant: the is_active test is left out
LoginOutcome_NoActiveCheck(n, p) ==
    IF \/ ~UsernameTaken(n)
       \/ ~verify_password(p, users[UserByUsername(n)].hashed_password)
    THEN [status |-> 401, detail |-> "Incorrect username or password",
          token_type |-> "", token |-> <<>>]
    ELSE [status |-> 200, detail |-> "", token_type |-> "bearer",
          token |-> <<create_access_token(users[UserByUsername(n)].username,
                                          UserByUsername(n),
                                          <<ACCESS_TOKEN_EXPIRE_MINUTES>>)>>]

\* POST /auth/login: the status, detail and body the handler answers with
LoginOutcome(n, p) ==
    IF \/ ~UsernameTaken(n)
       \/ ~verify_password(p, users[UserByUsername(n)].hashed_password)
    THEN [status |-> 401, detail |-> "Incorrect username or password",
          token_type |-> "", token |-> <<>>]
    ELSE IF ~users[UserByUsername(n)].is_active
    THEN [status |-> 403, detail |-> "User account is inactive",
          token_type |-> "", token |-> <<>>]
    ELSE [status |-> 200, detail |-> "", token_type |-> "bearer",
          token |-> <<create_access_token(users[UserByUsername(n)].username,
                                          UserByUsername(n),
                                          <<ACCESS_TOKEN_EXPIRE_MINUTES>>)>>]

Login(n, p) ==
    /\ resp' = [op |-> "login", username |-> n, password |-> p,
                status |-> LoginOutcome(n, p).status,
                detail |-> LoginOutcome(n, p).detail,
                token_type |-> LoginOutcome(n, p).token_type,
                token |-> LoginOutcome(n, p).token]
    /\ UNCHANGED <<authVars, invVars, envVars>>

\* users.is_active is a column no endpoint writes; an operator changes it
\* in the database
SetActive(i, b) ==
    /\ i \in UserIds
    /\ users[i].is_active # b
    /\ users' = [users EXCEPT ![i].is_active = b]
    /\ resp' = [op |-> "set_active", status |-> 0, user |-> i]
    /\ UNCHANGED <<accepted, invVars, envVars>>

----------------------------------------------------------------------------
(* app/api/users.py *)

NoValue == "<none>"     \* a field the request leaves out (None)

\* the bearer-token dependency: the caller is a stored user
Authenticated(u) == u \in UserIds

\* PUT /users/me
\* the Authorization header of a request: none, one that is not
\* "Bearer <JWT>", or a JWT
NoCredential        == [kind |-> "absent"]
MalformedCredential == [kind |-> "malformed"]

\* what get_current_user answers when it raises 401
NoUser == 0

\* trusts the claims of a JWT without verifying it
get_current_user_Unverified(cred) ==
    IF cred.kind = "jwt" /\ cred.user_id \in UserIds THEN cred.user_id ELSE NoUser

\* the dependency of every Users and Invoices endpoint: the user the bearer
\* token was issued to, when decode_access_token accepts the token and the
\* user exists
get_current_user(cred) ==
    IF cred.kind # "jwt" THEN NoUser
    ELSE LET payload == decode_access_token(cred)
         IN  IF payload = <<>> THEN NoUser
             ELSE IF payload[1].user_id \in UserIds THEN payload[1].user_id
             ELSE NoUser

\* the answer of an endpoint whose dependency raised: no handler code runs
Unauthorized(op, cred) ==
    /\ resp' = [op |-> op, status |-> 401,
                detail |-> "Could not validate credentials", cred |-> cred]
    /\ UNCHANGED <<authVars, invVars, envVars>>

\* GET /users/me
GetCurrentUserInfo(u) ==
    /\ Authenticated(u)
    /\ resp' = [op |-> "me", status |-> 200, detail |-> "", user |-> u,
                data |-> users[u]]
    /\ UNCHANGED <<authVars, invVars, envVars>>

UpdateProfile(u, e, fn) ==
    /\ Authenticated(u)
    /\ UNCHANGED <<accepted, invVars, envVars>>
    /\ IF e # NoValue /\ e # users[u].email /\ EmailTaken(e)
       THEN /\ resp' = [op |-> "update_profile", status |-> 400,
                        detail |-> "Email already registered", user |-> u,
                        before |-> users[u],
                        data |-> [email |-> e, full_name |-> fn]]
            /\ UNCHANGED users
       ELSE /\ users' = [users EXCEPT
                  ![u].email = IF e # NoValue THEN e ELSE @,
                  ![u].full_name = IF fn # NoValue THEN fn ELSE @]
            /\ resp' = [op |-> "update_profile", status |-> 200,
                        detail |-> "", user |-> u, before |-> users[u],
                        data |-> [email |-> e, full_name |-> fn]]

----------------------------------------------------------------------------
(* app/utils/helpers.py, app/services/pdf_service.py, qr_service.py *)

\* generate_invoice_number(): INV-<date>-<4 random digits>; the model draws
\* the random digits from a small set
InvoiceNumbers == {"INV-20251005-0001", "INV-20251005-0002"}

\* f"invoice_{invoice_number}.pdf" under UPLOAD_DIR
PdfPath(num) == <<"static/invoices", num>>

\* f"invoice_{invoice_number}_qr.png" under QR_DIR
QrPath(num) == <<"static/qr_codes", num>>

NoPath == <<>>      \* a NULL pdf_path or qr_code_path
NoTime == <<>>      \* a NULL email_sent_at

\* round(x, 2) of the value num/den cents, den > 0: the nearest cent, a tie
\* to the even cent
Round2(num, den) ==
    LET q == num \div den
        r == num % den
    IN  IF 2 * r < den THEN q
        ELSE IF 2 * r > den THEN q + 1
        ELSE IF q % 2 = 0 THEN q ELSE q + 1

\* variant: the item total is cut off below the cent
ItemTotal_Truncated(item) == (item.quantity10 * item.price) \div 10

\* InvoiceItem.total: round(quantity * price, 2); quantity in tenths,
\* price in cents
ItemTotal(item) == Round2(item.quantity10 * item.price, 10)

\* items_list of create_invoice: each item with its total
ItemsList(items) ==
    [k \in 1..Len(items) |->
        [quantity10 |-> items[k].quantity10, price |-> items[k].price,
         total |-> ItemTotal(items[k])]]

RECURSIVE SumTotals(_)
\* sum(item["total"] for item in items_list)
SumTotals(items) ==
    IF items = <<>> THEN 0
    ELSE items[1].total + SumTotals(Tail(items))

\* variant: the tax is taken on the subtotal before the discount
CalculateTotals_TaxBeforeDiscount(items_list, tax_rate, discount_rate) ==
    LET subtotal == SumTotals(items_list)
        discount_amount == Round2(subtotal * discount_rate, 100)
        tax_amount == Round2(subtotal * tax_rate, 100)
    IN  [subtotal |-> subtotal, discount_amount |-> discount_amount,
         tax_amount |-> tax_amount,
         total |-> Round2(subtotal - discount_amount + tax_amount, 1)]

\* "Calculate totals" of create_invoice
CalculateTotals(items_list, tax_rate, discount_rate) ==
    LET subtotal == SumTotals(items_list)
        discount_amount == Round2(subtotal * discount_rate, 100)
        subtotal_after_discount == subtotal - discount_amount
        tax_amount == Round2(subtotal_after_discount * tax_rate, 100)
        total == Round2(subtotal_after_discount + tax_amount, 1)
    IN  [subtotal |-> subtotal, discount_amount |-> discount_amount,
         tax_amount |-> tax_amount, total |-> total]

RECURSIVE SumGetTotal(_)
\* sum(item.get("total", 0) for item in items)
SumGetTotal(items) ==
    IF items = <<>> THEN 0
    ELSE (IF "total" \in DOMAIN items[1] THEN items[1].total ELSE 0)
            + SumGetTotal(Tail(items))

\* variant: the renderer leaves the discount out
calculate_totals_NoDiscount(items, tax_rate, discount_rate) ==
    LET subtotal == SumGetTotal(items)
        tax_amount == Round2(subtotal * tax_rate, 100)
    IN  [subtotal |-> subtotal, discount_amount |-> 0,
         tax_amount |-> tax_amount,
         total |-> Round2(subtotal + tax_amount, 1)]

\* PDFGenerator.calculate_totals
calculate_totals(items, tax_rate, discount_rate) ==
    LET subtotal == SumGetTotal(items)
        discount_amount == Round2(subtotal * discount_rate, 100)
        subtotal_after_discount == subtotal - discount_amount
        tax_amount == Round2(subtotal_after_discount * tax_rate, 100)
        total == Round2(subtotal_after_discount + tax_amount, 1)
    IN  [subtotal |-> subtotal, discount_amount |-> discount_amount,
         tax_amount |-> tax_amount, total |-> total]

\* A string is the sequence of its characters.
\* string.ascii_letters + string.digits + "-_."
safe_chars ==
    { "a", "b", "c", "d", "e", "f", "g", "h", "i", "j", "k", "l",
      "m", "n", "o", "p", "q", "r", "s", "t", "u", "v", "w", "x",
      "y", "z", "A", "B", "C", "D", "E", "F", "G", "H", "I", "J",
      "K", "L", "M", "N", "O", "P", "Q", "R", "S", "T", "U", "V",
      "W", "X", "Y", "Z" }
      \cup {"0", "1", "2", "3", "4", "5", "6", "7", "8", "9"}
      \cup {"-", "_", "."}

\* ''.join(c if c in safe_chars else '_' for c in filename)
ReplaceUnsafe(filename) ==
    [k \in 1..Len(filename) |->
        IF filename[k] \in safe_chars THEN filename[k] ELSE "_"]

RECURSIVE CollapseUnderscores(_)
\* re.sub(r'_+', '_', s)
CollapseUnderscores(str) ==
    IF Len(str) < 2 THEN str
    ELSE IF str[1] = "_" /\ str[2] = "_" THEN CollapseUnderscores(Tail(str))
    ELSE <<str[1]>> \o CollapseUnderscores(Tail(str))

\* the positions of "." in a string
Dots(str) == {k \in 1..Len(str) : str[k] = "."}

LastDot(str) == CHOOSE k \in Dots(str) : \A l \in Dots(str) : l <= k

\* s[:n], also for a negative n
SliceTo(str, n) ==
    LET m == IF n < 0 THEN (IF Len(str) + n < 0 THEN 0 ELSE Len(str) + n)
             ELSE IF n > Len(str) THEN Len(str) ELSE n
    IN  SubSeq(str, 1, m)

\* sanitize_filename(filename, max_length)
sanitize_filename(filename, max_length) ==
    LET sanitized == CollapseUnderscores(ReplaceUnsafe(filename))
    IN  IF Len(sanitized) > max_length
        THEN LET hasDot == Dots(sanitized) # {}
                 name == IF hasDot
                         THEN SubSeq(sanitized, 1, LastDot(sanitized) - 1)
                         ELSE sanitized
                 ext == IF hasDot
                        THEN SubSeq(sanitized, LastDot(sanitized) + 1,
                                    Len(sanitized))
                        ELSE <<>>
                 max_name_length == max_length - Len(ext) - 1
             IN  IF ext # <<>>
                 THEN SliceTo(name, max_name_length) \o <<".">> \o ext
                 ELSE SliceTo(name, max_length)
        ELSE sanitized

\* a call of sanitize_filename
SanitizeFilename(filename, max_length) ==
    /\ resp' = [op |-> "sanitize_filename", status |-> 0,
                filename |-> filename, max_length |-> max_length,
                result |-> sanitize_filename(filename, max_length)]
    /\ UNCHANGED <<authVars, invVars, envVars>>

\* validate_email_rate_limit(user_id, db): the dict it returns
validate_email_rate_limit(u) ==
    LET limit == settings.EMAIL_RATE_LIMIT
        time_threshold == UtcNow - 60 * RateLimitHours
        count == Cardinality({i \in DOMAIN invoices :
                    /\ invoices[i].user_id = u
                    /\ invoices[i].is_sent_email
                    /\ invoices[i].email_sent_at # NoTime
                    /\ invoices[i].email_sent_at[1] >= time_threshold})
    IN  [allowed |-> count < limit,
         remaining |-> IF limit - count > 0 THEN limit - count ELSE 0,
         limit |-> limit, count |-> count,
         reset_in_minutes |-> 60 * RateLimitHours]

\* bool(d) of a Python dict: false only for the empty dict
Truthy(d) == DOMAIN d # {}

----------------------------------------------------------------------------
(* app/api/invoices.py *)

InvoiceIds == DOMAIN invoices

\* variant: the query filters on the id alone
Owned_AnyUser(u, id) == id \in InvoiceIds

\* db.query(Invoice).filter(Invoice.id == id, Invoice.user_id == u).first()
Owned(u, id) == id \in InvoiceIds /\ invoices[id].user_id = u

\* max(id) of the table, 0 when it is empty
MaxId == IF InvoiceIds = {} THEN 0
         ELSE CHOOSE i \in InvoiceIds : \A j \in InvoiceIds : j <= i

\* the id the database gives a new row of `id = Column(Integer,
\* primary_key=True)`: on SQLite the largest id of the table plus one, on
\* PostgreSQL the next value of the column's sequence
NewId == IF settings.DATABASE_URL = "sqlite" THEN MaxId + 1 ELSE nextId

\* the sequence after an INSERT was attempted: PostgreSQL draws the value
\* before it tests the unique index, and does not give it back
NextIdAfterInsert ==
    IF settings.DATABASE_URL = "sqlite" \/ nextId > MaxInvoices
    THEN nextId ELSE nextId + 1

NumberTaken(num) == \E i \in InvoiceIds : invoices[i].invoice_number = num

Written(fs, path, content) ==
    [f \in DOMAIN fs \cup {path} |-> IF f = path THEN content ELSE fs[f]]

Removed(fs, paths) == [f \in DOMAIN fs \ paths |-> fs[f]]

\* POST /invoices/generate.  num is the number generate_invoice_number
\* draws, render is whether the PDF renderer succeeds.
\* InvoiceCreate.validate_dates: false when the validator raises
validate_dates(data) ==
    ~(data.issue_date # NoTime /\ data.due_date # NoTime
        /\ data.due_date[1] < data.issue_date[1])

CreateInvoice(u, data, num, render) ==
    LET items_list == ItemsList(data.items)
        t == CalculateTotals(items_list, data.tax_rate, data.discount_rate)
        content == [owner |-> u, client_name |-> data.client_name,
                    total |-> t.total]
        printed == calculate_totals(items_list, data.tax_rate,
                                    data.discount_rate)
        \* the PDF prints the totals the renderer computes from the items
        page == [owner |-> u, client_name |-> data.client_name,
                 total |-> printed.total, subtotal |-> printed.subtotal,
                 discount_amount |-> printed.discount_amount,
                 tax_amount |-> printed.tax_amount]
        withQr == Written(files, QrPath(num), content)
        withPdf == Written(withQr, PdfPath(num), page)
    IN
    /\ Authenticated(u)
    /\ UNCHANGED <<authVars, tasks, deleted, envVars>>
    /\ IF ~validate_dates(data)
       THEN \* the body is rejected before the handler runs
            /\ UNCHANGED <<invoices, nextId, files, issued>>
            /\ resp' = [op |-> "create", user |-> u, id |-> 0, status |-> 422,
                        detail |-> "Due date must be after issue date",
                        data |-> data, number |-> NoValue]
       ELSE IF render # "ok"
       THEN \* the QR image is saved, the renderer raises, nothing is stored
            /\ files' = withQr
            /\ UNCHANGED <<invoices, nextId, issued>>
            /\ resp' = [op |-> "create", user |-> u, id |-> 0, status |-> 500,
                        detail |-> "Internal server error", data |-> data,
                        number |-> num]
       ELSE IF NumberTaken(num)
       THEN \* both files are written, the commit violates the unique index
            /\ files' = withPdf
            /\ nextId' = NextIdAfterInsert
            /\ UNCHANGED <<invoices, issued>>
            /\ resp' = [op |-> "create", user |-> u, id |-> 0, status |-> 500,
                        detail |-> "Internal server error", data |-> data,
                        number |-> num]
       ELSE /\ NewId <= MaxInvoices
            /\ files' = withPdf
            /\ invoices' = [i \in InvoiceIds \cup {NewId} |->
                 IF i # NewId THEN invoices[i]
                 ELSE [invoice_number |-> num, user_id |-> u,
                       client_name |-> data.client_name,
                       client_email |-> data.client_email,
                       client_phone |-> data.client_phone,
                       client_address |-> data.client_address,
                       language |-> data.language,
                       currency |-> data.currency,
                       items |-> items_list,
                       subtotal |-> t.subtotal,
                       tax_rate |-> data.tax_rate,
                       tax_amount |-> t.tax_amount,
                       discount_rate |-> data.discount_rate,
                       discount_amount |-> t.discount_amount,
                       total |-> t.total,
                       issue_date |-> <<LocalNow>>,
                       due_date |-> data.due_date,
                       notes |-> data.notes,
                       created_at |-> UtcNow,
                       pdf_path |-> PdfPath(num),
                       qr_code_path |-> QrPath(num),
                       status |-> "draft",
                       is_sent_email |-> FALSE,
                       email_sent_at |-> NoTime]]
            /\ nextId' = NextIdAfterInsert
            /\ issued' = issued \cup {num}
            /\ resp' = [op |-> "create", user |-> u, id |-> NewId,
                        status |-> 201, detail |-> "", data |-> data,
                        number |-> num]

\* GET /invoices/{invoice_id}
GetInvoice(u, id) ==
    /\ Authenticated(u)
    /\ UNCHANGED <<authVars, invVars, envVars>>
    /\ resp' = IF Owned(u, id)
               THEN [op |-> "get", user |-> u, id |-> id, status |-> 200,
                     detail |-> ""]
               ELSE [op |-> "get", user |-> u, id |-> id, status |-> 404,
                     detail |-> "Invoice not found"]

\* Path(settings.UPLOAD_DIR) / ".health_check"
HealthCheckFile == <<"static/invoices", ".health_check">>

\* GET /health.  db says whether SELECT 1 went through; fs is how far the
\* write and the unlink of the test file got; smtp whether SMTP_HOST and
\* SMTP_PORT are both set.  Only the database branch sets the overall
\* status.
health_check(db, fs, smtp) ==
    LET afterDb == IF db THEN "healthy" ELSE "unhealthy"
        health_status ==
            [status |-> afterDb,
             checks |-> [database |-> IF db THEN "healthy" ELSE "unhealthy",
                         filesystem |-> IF fs = "ok" THEN "healthy"
                                        ELSE "unhealthy",
                         email |-> IF smtp THEN "configured"
                                   ELSE "not_configured"]]
    IN
    /\ files' = IF fs = "unlink_fails" THEN Written(files, HealthCheckFile, "OK")
                ELSE files
    /\ resp' = [op |-> "health",
                status |-> IF health_status.status = "healthy" THEN 200 ELSE 503,
                detail |-> "", content |-> health_status]
    /\ UNCHANGED <<authVars, invoices, nextId, tasks, deleted, issued, envVars>>

\* the fields InvoiceListResponse declares without a default
ListResponseRequired == {"invoices", "total", "page", "page_size", "total_pages"}

\* response_model validation of a returned dict: every required field of
\* the model has to be in it
ResponseValid(body, required) == required \subseteq DOMAIN body

\* the caller's rows, with the status when one is given (`if status:`)
ListQuery(u, status) ==
    {i \in InvoiceIds : /\ invoices[i].user_id = u
                        /\ status # NoValue => invoices[i].status = status}

\* order_by(Invoice.created_at.desc()): the orders the database may return
\* the rows of a query in; rows of one created_at come in any order
OrderedDesc(ids) ==
    {o \in [1..Cardinality(ids) -> ids] :
        /\ \A a, b \in DOMAIN o : a # b => o[a] # o[b]
        /\ \A a, b \in DOMAIN o :
              a < b => invoices[o[a]].created_at >= invoices[o[b]].created_at}

\* .offset(n).limit(m) on an ordered result
OffsetLimit(o, n, m) ==
    [k \in 1..(IF Len(o) - n > m THEN m
               ELSE IF Len(o) - n > 0 THEN Len(o) - n ELSE 0) |-> o[n + k]]

\* GET /invoices/.  The handler returns a dict without "total_pages", and
\* the response model rejects it: ResponseValidationError, answered by the
\* handler for Exception in main.py.
ListInvoices(u, page, page_size, status) ==
    LET p == IF page < 1 THEN 1 ELSE page
        ps == IF page_size < 1 \/ page_size > 100 THEN 10 ELSE page_size
        query == ListQuery(u, status)
    IN
    /\ Authenticated(u)
    /\ UNCHANGED <<authVars, invVars, envVars>>
    /\ \E o \in OrderedDesc(query) :
          LET body == [invoices |-> OffsetLimit(o, (p - 1) * ps, ps),
                       total |-> Cardinality(query),
                       page |-> p, page_size |-> ps]
          IN  resp' = IF ResponseValid(body, ListResponseRequired)
                      THEN [op |-> "list", user |-> u, status |-> 200,
                            detail |-> "", page |-> page,
                            page_size |-> page_size, filter |-> status,
                            returned |-> body]
                      ELSE [op |-> "list", user |-> u, status |-> 500,
                            detail |-> "Internal server error. Please try again later.",
                            page |-> page, page_size |-> page_size,
                            filter |-> status, returned |-> body]

\* GET /invoices/{invoice_id}/download
DownloadInvoice(u, id) ==
    /\ Authenticated(u)
    /\ UNCHANGED <<authVars, invVars, envVars>>
    /\ resp' = IF ~Owned(u, id)
               THEN [op |-> "download", user |-> u, id |-> id, status |-> 404,
                     detail |-> "Invoice not found"]
               ELSE IF invoices[id].pdf_path = NoPath
               THEN [op |-> "download", user |-> u, id |-> id, status |-> 404,
                     detail |-> "PDF not generated yet"]
               ELSE IF invoices[id].pdf_path \notin DOMAIN files
               THEN \* FileResponse finds no file at the path
                    [op |-> "download", user |-> u, id |-> id, status |-> 500,
                     detail |-> "Internal server error"]
               ELSE [op |-> "download", user |-> u, id |-> id, status |-> 200,
                     detail |-> ""]

\* `if not validate_email_rate_limit(current_user.id, db)`
RateLimitExceeded(u) == ~Truthy(validate_email_rate_limit(u))

\* variant: every status is set to "sent"
StatusAfterSend_Always(status) == "sent"

\* `if invoice.status == "draft": invoice.status = "sent"`
StatusAfterSend(status) == IF status = "draft" THEN "sent" ELSE status

\* POST /invoices/{invoice_id}/send-email
SendInvoiceByEmail(u, id, to_email) ==
    /\ Authenticated(u)
    /\ UNCHANGED <<authVars, nextId, files, deleted, issued, envVars>>
    /\ IF RateLimitExceeded(u)
       THEN /\ resp' = [op |-> "send", user |-> u, id |-> id, status |-> 429,
                        detail |-> "Email rate limit exceeded. Maximum 5 emails per hour."]
            /\ UNCHANGED <<invoices, tasks>>
       ELSE IF ~Owned(u, id)
       THEN /\ resp' = [op |-> "send", user |-> u, id |-> id, status |-> 404,
                        detail |-> "Invoice not found"]
            /\ UNCHANGED <<invoices, tasks>>
       ELSE IF invoices[id].pdf_path = NoPath
       THEN /\ resp' = [op |-> "send", user |-> u, id |-> id, status |-> 400,
                        detail |-> "PDF not generated"]
            /\ UNCHANGED <<invoices, tasks>>
       ELSE /\ tasks' = tasks \cup {invoices[id].invoice_number}
            /\ invoices' = [invoices EXCEPT
                    ![id].is_sent_email = TRUE,
                    ![id].email_sent_at = <<LocalNow>>,
                    ![id].status = StatusAfterSend(@)]
            /\ resp' = [op |-> "send", user |-> u, id |-> id, status |-> 200,
                        detail |-> "Email is being sent"]

\* how a run of the background task ends: send_email returned True, it
\* caught an SMTPException or a timeout and returned False, or the task
\* raised (settings.EMAIL_FROM_NAME, read at email_service.py:155, is not
\* a field of Settings)
EmailOutcomes == {"sent", "smtp_error", "timeout", "exception"}

\* variant: a delivery that failed takes the mark back
InvoicesAfterTask_Unmark(num, outcome) ==
    [i \in DOMAIN invoices |->
        IF invoices[i].invoice_number = num /\ outcome # "sent"
        THEN [invoices[i] EXCEPT !.is_sent_email = FALSE]
        ELSE invoices[i]]

\* the task has no session and writes no row
InvoicesAfterTask(num, outcome) == invoices

\* the background task send_invoice_email runs, after the response of
\* send-email went out; its result is only logged
RunEmailTask(num, outcome) ==
    /\ num \in tasks
    /\ tasks' = tasks \ {num}
    /\ invoices' = InvoicesAfterTask(num, outcome)
    /\ resp' = [op |-> "email_task", status |-> 0, number |-> num,
                outcome |-> outcome]
    /\ UNCHANGED <<authVars, nextId, files, deleted, issued, envVars>>

\* variant: a field the request leaves out is overwritten with None
Patch_Overwrite(old, new, none) == new

\* `if update_data.f is not None: invoice.f = update_data.f`
Patch(old, new, none) == IF new # none THEN new ELSE old

\* PUT /invoices/{invoice_id}.  A field the request leaves out is None:
\* NoValue, and NoTime for due_date.
UpdateInvoice(u, id, upd) ==
    /\ Authenticated(u)
    /\ UNCHANGED <<authVars, nextId, files, tasks, deleted, issued, envVars>>
    /\ IF ~Owned(u, id)
       THEN /\ resp' = [op |-> "update", user |-> u, id |-> id, status |-> 404,
                        detail |-> "Invoice not found", data |-> upd]
            /\ UNCHANGED invoices
       ELSE /\ invoices' = [invoices EXCEPT
                    ![id].client_name = Patch(@, upd.client_name, NoValue),
                    ![id].client_email = Patch(@, upd.client_email, NoValue),
                    ![id].client_phone = Patch(@, upd.client_phone, NoValue),
                    ![id].client_address = Patch(@, upd.client_address, NoValue),
                    ![id].status = Patch(@, upd.status, NoValue),
                    ![id].notes = Patch(@, upd.notes, NoValue),
                    ![id].due_date = Patch(@, upd.due_date, NoTime)]
            /\ resp' = [op |-> "update", user |-> u, id |-> id, status |-> 200,
                        detail |-> "", data |-> upd]

\* variant: the files are left on disk
FilesAfterDelete_KeepsFiles(row) == files

\* variant: the delete empties both directories
FilesAfterDelete_WipesDirectories(row) == Removed(files, DOMAIN files)

\* "Delete files" of delete_invoice: unlink what exists
FilesAfterDelete(row) ==
    Removed(files, {p \in {row.pdf_path, row.qr_code_path} :
                        p # NoPath /\ p \in DOMAIN files})

\* DELETE /invoices/{invoice_id}
DeleteInvoice(u, id) ==
    /\ Authenticated(u)
    /\ UNCHANGED <<authVars, nextId, tasks, issued, envVars>>
    /\ IF ~Owned(u, id)
       THEN /\ resp' = [op |-> "delete", user |-> u, id |-> id, status |-> 404,
                        detail |-> "Invoice not found"]
            /\ UNCHANGED <<invoices, files, deleted>>
       ELSE /\ files' = FilesAfterDelete(invoices[id])
            /\ deleted' = deleted \cup {<<u, id>>}
            /\ invoices' = [i \in InvoiceIds \ {id} |-> invoices[i]]
            /\ resp' = [op |-> "delete", user |-> u, id |-> id, status |-> 204,
                        detail |-> "",
                        unlinked |-> DOMAIN files \ DOMAIN FilesAfterDelete(invoices[id])]

\* a file is lost outside the API (the directories are plain local storage)
LoseFile(path) ==
    /\ path \in DOMAIN files
    /\ files' = Removed(files, {path})
    /\ resp' = [op |-> "lose_file", status |-> 0, path |-> path]
    /\ UNCHANGED <<authVars, invoices, nextId, tasks, deleted, issued, envVars>>

\* the clock moves in steps of half the rate-limit window
TickMinutes == (60 * RateLimitHours) \div 2

\* time passes
Tick ==
    /\ now + TickMinutes <= MaxTime
    /\ now' = now + TickMinutes
    /\ resp' = [op |-> "tick", status |-> 0]
    /\ UNCHANGED <<authVars, invVars, settings, tokens, tz>>

----------------------------------------------------------------------------

NoInvoices == [i \in {} |-> 0]
NoFiles    == [f \in {} |-> 0]

\* the state after startup: empty tables, empty directories; the server's
\* local time is UTC
Init ==
    /\ users = <<>>
    /\ accepted = {}
    /\ invoices = NoInvoices
    /\ nextId = 1
    /\ files = NoFiles
    /\ tasks = {}
    /\ deleted = {}
    /\ issued = {}
    /\ settings = [EMAIL_RATE_LIMIT |-> EMAIL_RATE_LIMIT,
                   DATABASE_URL |-> "sqlite"]
    /\ tokens = {}
    /\ now = 0
    /\ tz = 0
    /\ resp = [op |-> "none", status |-> 0]

NextAuth ==
    \/ \E e \in Emails, n \in Usernames, p \in Passwords : Register(e, n, p)
    \/ \E n \in Usernames, p \in Passwords : Login(n, p)
    \/ \E i \in 1..MaxUsers, b \in BOOLEAN : SetActive(i, b)
    \/ \E u \in 1..MaxUsers, e \in Emails \cup {NoValue},
          fn \in {NoValue, "New Name"} : UpdateProfile(u, e, fn)

SpecAuth == Init /\ [][NextAuth]_vars

----------------------------------------------------------------------------
(* The invoice endpoints, called by two registered users *)

TzOffsets == {-60, 0, 60}     \* local time minus UTC, in minutes

\* values of the EMAIL_RATE_LIMIT environment variable
RateLimits == {1, EMAIL_RATE_LIMIT}

\* database backends of the DATABASE_URL environment variable; SQLite is
\* the default
Databases == {"sqlite", "postgresql"}

TwoUsers ==
    << [email |-> "a@x.io", username |-> "alice",
        hashed_password |-> hash_password([text |-> "short8", bytes |-> 8]),
        full_name |-> "", is_active |-> TRUE],
       [email |-> "b@x.io", username |-> "bob",
        hashed_password |-> hash_password([text |-> "long100", bytes |-> 100]),
        full_name |-> "", is_active |-> TRUE] >>

\* two registered users, empty invoice table, empty directories
InitInvoices ==
    /\ users = TwoUsers
    /\ accepted = {}
    /\ invoices = NoInvoices
    /\ nextId = 1
    /\ files = NoFiles
    /\ tasks = {}
    /\ deleted = {}
    /\ issued = {}
    /\ tokens = {}
    /\ now = 0
    /\ resp = [op |-> "none", status |-> 0]

ClientNames == {"ACME", "Globex"}
Statuses    == {"draft", "sent", "paid", "cancelled", "overdue"}
IdRange     == 1..MaxInvoices
Callers     == 1..MaxUsers

\* the create request of the specifications that are not about arithmetic
PlainCreate ==
    [client_name |-> "ACME", client_email |-> "pay@acme.io",
     client_phone |-> NoValue, client_address |-> NoValue,
     language |-> "en", currency |-> "USD",
     items |-> << [quantity10 |-> 10, price |-> 10000] >>,
     tax_rate |-> 10, discount_rate |-> 0,
     issue_date |-> NoTime, due_date |-> NoTime, notes |-> NoValue]

\* the update request that sets no field
EmptyUpdate ==
    [client_name |-> NoValue, client_email |-> NoValue,
     client_phone |-> NoValue, client_address |-> NoValue,
     status |-> NoValue, notes |-> NoValue, internal_notes |-> NoValue,
     due_date |-> NoTime]

StatusUpdate(st) == [EmptyUpdate EXCEPT !.status = st]

(* Two users call every invoice endpoint of a deployment on PostgreSQL;   *)
(* one of the deployments has the rate limit set to 1, so that a user with *)
(* one sent invoice is at it.                                              *)
InitIsolation ==
    /\ InitInvoices
    /\ settings \in [EMAIL_RATE_LIMIT : RateLimits, DATABASE_URL : {"postgresql"}]
    /\ tz = 0

NextIsolation ==
    \/ \E u \in Callers, num \in InvoiceNumbers :
          CreateInvoice(u, PlainCreate, num, "ok")
    \/ \E u \in Callers, id \in IdRange : GetInvoice(u, id)
    \/ \E u \in Callers, id \in IdRange : DownloadInvoice(u, id)
    \/ \E u \in Callers, id \in IdRange : SendInvoiceByEmail(u, id, NoValue)
    \/ \E u \in Callers, id \in IdRange : UpdateInvoice(u, id, StatusUpdate("paid"))
    \/ \E u \in Callers, id \in IdRange : DeleteInvoice(u, id)

SpecIsolation == InitIsolation /\ [][NextIsolation]_vars

(* One user's invoices through every status, sent by email, the           *)
(* background task run.                                                    *)
InitSend ==
    /\ InitInvoices
    /\ settings = [EMAIL_RATE_LIMIT |-> EMAIL_RATE_LIMIT,
                   DATABASE_URL |-> "sqlite"]
    /\ tz = 0

NextSend ==
    \/ \E num \in InvoiceNumbers, r \in {"ok", "error"} :
          CreateInvoice(1, PlainCreate, num, r)
    \/ \E id \in IdRange, st \in Statuses : UpdateInvoice(1, id, StatusUpdate(st))
    \/ \E id \in IdRange : SendInvoiceByEmail(1, id, NoValue)
    \/ \E num \in InvoiceNumbers, outcome \in EmailOutcomes :
          RunEmailTask(num, outcome)

SpecSend == InitSend /\ [][NextSend]_vars

(* Invoices created, fetched and deleted, while files may get lost.        *)
NextDelete ==
    \/ \E u \in Callers, num \in InvoiceNumbers :
          CreateInvoice(u, PlainCreate, num, "ok")
    \/ \E u \in Callers, id \in IdRange : GetInvoice(u, id)
    \/ \E u \in Callers, id \in IdRange : DeleteInvoice(u, id)
    \/ \E num \in InvoiceNumbers : \E p \in {PdfPath(num), QrPath(num)} : LoseFile(p)

InitDelete ==
    /\ InitInvoices
    /\ settings \in [EMAIL_RATE_LIMIT : {EMAIL_RATE_LIMIT}, DATABASE_URL : Databases]
    /\ tz = 0

SpecDelete == InitDelete /\ [][NextDelete]_vars

(* Emails sent while time passes, on servers in three time zones and with  *)
(* the rate limit set to 1, 2 or the default.                              *)
InitRate ==
    /\ InitInvoices
    /\ settings \in [EMAIL_RATE_LIMIT : RateLimits \cup {2},
                      DATABASE_URL : {"sqlite"}]
    /\ tz \in TzOffsets

NextRate ==
    \/ \E u \in Callers, num \in InvoiceNumbers :
          CreateInvoice(u, PlainCreate, num, "ok")
    \/ \E u \in Callers, id \in IdRange : SendInvoiceByEmail(u, id, NoValue)
    \/ Tick

SpecRate == InitRate /\ [][NextRate]_vars

(* Create requests over a range of items and rates: the example of the    *)
(* specification, fractional quantities, both rates set, a full discount,  *)
(* no tax and no discount, and an item that rounds to nothing.             *)
Item(q10, price) == [quantity10 |-> q10, price |-> price]

CreateRequest(items, t, d) ==
    [PlainCreate EXCEPT !.items = items, !.tax_rate = t, !.discount_rate = d]

CreateRequests ==
    { PlainCreate,
      CreateRequest(<<Item(15, 334), Item(20, 1999)>>, 20, 15),
      CreateRequest(<<Item(25, 1998)>>, 7, 15),
      CreateRequest(<<Item(10, 10000), Item(5, 250)>>, 20, 100),
      CreateRequest(<<Item(30, 4999)>>, 0, 0),
      CreateRequest(<<Item(7, 11)>>, 100, 50) }

NextArith ==
    \/ \E d \in CreateRequests, num \in InvoiceNumbers :
          CreateInvoice(1, d, num, "ok")
    \/ \E id \in IdRange : GetInvoice(1, id)

SpecArith == InitSend /\ [][NextArith]_vars

(* Invoices of one user created, sent and updated, by requests that set  *)
(* no field, the name and the status, the contact fields, the notes and    *)
(* the due date, or all of them; the other user sends the same requests.   *)
UpdateRequests ==
    { EmptyUpdate,
      [EmptyUpdate EXCEPT !.client_name = "Globex", !.status = "paid"],
      [EmptyUpdate EXCEPT !.client_email = "ap@globex.io",
                          !.client_phone = "+212 600",
                          !.client_address = "1 Main St"],
      [EmptyUpdate EXCEPT !.notes = "received", !.internal_notes = "call",
                          !.due_date = <<MaxTime>>],
      [client_name |-> "Globex", client_email |-> "ap@globex.io",
       client_phone |-> "+212 600", client_address |-> "1 Main St",
       status |-> "cancelled", notes |-> "received",
       internal_notes |-> "call", due_date |-> <<MaxTime>>] }

NextUpdate ==
    \/ \E num \in InvoiceNumbers : CreateInvoice(1, PlainCreate, num, "ok")
    \/ \E id \in IdRange : SendInvoiceByEmail(1, id, NoValue)
    \/ \E u \in Callers, id \in IdRange, upd \in UpdateRequests :
          UpdateInvoice(u, id, upd)

SpecUpdate == InitSend /\ [][NextUpdate]_vars

(* One user's invoices on PostgreSQL: created from the example request,  *)
(* a request with a discount and tax and a request whose item total is     *)
(* rounded up, then updated, sent and deleted.                             *)
LedgerRequests ==
    { PlainCreate,
      CreateRequest(<<Item(15, 334), Item(20, 1999)>>, 20, 15),
      CreateRequest(<<Item(7, 11)>>, 100, 50) }

InitLedger ==
    /\ InitInvoices
    /\ settings = [EMAIL_RATE_LIMIT |-> EMAIL_RATE_LIMIT,
                   DATABASE_URL |-> "postgresql"]
    /\ tz = 0

NextLedger ==
    \/ \E d \in LedgerRequests, num \in InvoiceNumbers :
          CreateInvoice(1, d, num, "ok")
    \/ \E id \in IdRange, st \in {"paid", "draft"} :
          UpdateInvoice(1, id, StatusUpdate(st))
    \/ \E id \in IdRange : SendInvoiceByEmail(1, id, NoValue)
    \/ \E id \in IdRange : DeleteInvoice(1, id)

SpecLedger == InitLedger /\ [][NextLedger]_vars

(* Two users create invoices at different times, mark some paid and list  *)
(* them, with page and page_size below, inside and above their ranges.     *)
Pages     == {0, 1, 2}
PageSizes == {0, 1, 10, 101}

NextList ==
    \/ \E u \in Callers, num \in InvoiceNumbers :
          CreateInvoice(u, PlainCreate, num, "ok")
    \/ \E id \in IdRange : UpdateInvoice(1, id, StatusUpdate("paid"))
    \/ \E u \in Callers, page \in Pages, page_size \in PageSizes,
          status \in {NoValue, "paid"} : ListInvoices(u, page, page_size, status)
    \/ Tick

SpecList == InitSend /\ [][NextList]_vars

(* Passwords hashed and verified: ASCII and two-byte characters, at and   *)
(* around the 72-byte ceiling, the 200 characters of the specification,    *)
(* and the SHA-256 hex digests of the long ones.                           *)
Pw(text, bytes) == [text |-> text, bytes |-> bytes]

LongPasswords ==
    { Pw("a*73", 73), Pw("b*73", 73), Pw("a*200", 200), Pw("e-acute*37", 74) }

ShortPasswords ==
    { Pw("a*1", 1), Pw("a*8", 8), Pw("b*8", 8), Pw("a*72", BcryptMaxBytes),
      Pw("b*72", BcryptMaxBytes), Pw("e-acute*36", BcryptMaxBytes) }

AllPasswords ==
    ShortPasswords \cup LongPasswords \cup {Sha256Hex(p) : p \in LongPasswords}

\* hash_password(p), then verify_password(q, ...) on the result
HashThenVerify(p, q) ==
    /\ resp' = [op |-> "verify_password", status |-> 0,
                password |-> p, candidate |-> q,
                hashed |-> hash_password(p),
                result |-> verify_password(q, hash_password(p))]
    /\ UNCHANGED <<authVars, invVars, envVars>>

NextPassword ==
    \E p \in AllPasswords, q \in AllPasswords : HashThenVerify(p, q)

SpecPassword == InitSend /\ [][NextPassword]_vars

(* Tokens made with no lifetime, a negative, a zero and two positive      *)
(* lifetimes, and decoded as time passes.                                  *)
ExpiresDeltas == {NoDelta, <<0 - TickMinutes>>, <<0>>, <<TickMinutes>>,
                  <<2 * TickMinutes>>}

\* a caller makes a token and keeps it, with the time and the argument it
\* was made with
CreateAccessToken(sub, uid, expires_delta) ==
    /\ Cardinality(tokens) < MaxTokens
    /\ tokens' = tokens \cup
          {[token |-> create_access_token(sub, uid, expires_delta),
            created |-> UtcNow, expires_delta |-> expires_delta]}
    /\ resp' = [op |-> "create_token", status |-> 0,
                token |-> create_access_token(sub, uid, expires_delta)]
    /\ UNCHANGED <<authVars, invVars, settings, now, tz>>

\* the holder of a token has it decoded
DecodeAccessToken(held) ==
    /\ held \in tokens
    /\ resp' = [op |-> "decode", status |-> 0, held |-> held,
                payload |-> decode_access_token(held.token)]
    /\ UNCHANGED <<authVars, invVars, envVars>>

NextToken ==
    \/ \E d \in ExpiresDeltas : CreateAccessToken("alice", 1, d)
    \/ \E h \in tokens : DecodeAccessToken(h)
    \/ Tick

SpecToken == InitSend /\ [][NextToken]_vars

(* The life of the PDF and QR files: creates that succeed and creates     *)
(* whose renderer fails, updates, sends, downloads and deletes.           *)
NextArtifacts ==
    \/ \E num \in InvoiceNumbers, r \in {"ok", "error"} :
          CreateInvoice(1, PlainCreate, num, r)
    \/ \E id \in IdRange : UpdateInvoice(1, id, StatusUpdate("paid"))
    \/ \E id \in IdRange : SendInvoiceByEmail(1, id, NoValue)
    \/ \E id \in IdRange : DownloadInvoice(1, id)
    \/ \E id \in IdRange : DeleteInvoice(1, id)

SpecArtifacts == InitLedger /\ [][NextArtifacts]_vars

(* Invoices created with and without an issue date and a due date, at     *)
(* different times of the clock.                                          *)
RequestDates == {NoTime, <<0>>, <<TickMinutes>>, <<MaxTime>>}

DatedRequests ==
    {[PlainCreate EXCEPT !.issue_date = i, !.due_date = d] :
        i \in RequestDates, d \in RequestDates}

NextDates ==
    \/ \E d \in DatedRequests, num \in InvoiceNumbers :
          CreateInvoice(1, d, num, "ok")
    \/ \E id \in IdRange : GetInvoice(1, id)
    \/ Tick

SpecDates == InitLedger /\ [][NextDates]_vars

(* File names sanitized: every string of up to MaxNameLen characters over *)
(* a letter, a digit, the three safe signs, the two path separators, a    *)
(* space and "#", and the names of the tests; with the default            *)
(* max_length and a small one, so that the trimming runs.                 *)
NameChars == {"a", "7", "-", "_", ".", "/", "\\", " ", "#"}

TestNames ==
    { <<"t", "e", "s", "t", " ", "f", "i", "l", "e", ".", "p", "d", "f">>,
      <<"i", "n", "v", "o", "i", "c", "e", "#", "1", "2", "3", "@", ".",
        "p", "d", "f">>,
      <<".", ".", "/", ".", ".", "/", ".", ".", "/", "e", "t", "c", "/",
        "p", "a", "s", "s", "w", "d">> }

Filenames ==
    TestNames \cup UNION {[1..n -> NameChars] : n \in 0..MaxNameLen}

MaxLengths == {DefaultMaxLength, 3}

\* one call in a behaviour: a call does not depend on the calls before it
NextSanitize ==
    /\ resp.op = "none"
    /\ \E filename \in Filenames, max_length \in MaxLengths :
          SanitizeFilename(filename, max_length)

SpecSanitize == InitSend /\ [][NextSanitize]_vars

(* The health check, with each outcome of its three checks, between       *)
(* invoice creations and deletions.                                       *)
FsOutcomes == {"ok", "write_fails", "unlink_fails"}

NextHealth ==
    \/ \E num \in InvoiceNumbers : CreateInvoice(1, PlainCreate, num, "ok")
    \/ \E id \in IdRange : DeleteInvoice(1, id)
    \/ \E db \in BOOLEAN, fs \in FsOutcomes, smtp \in BOOLEAN :
          health_check(db, fs, smtp)

SpecHealth == InitLedger /\ [][NextHealth]_vars

(* Requests with their Authorization header: the first user is issued    *)
(* one token, with the lifetime login gives, time passes, and every       *)
(* endpoint is called with no header, a malformed one, the issued token,  *)
(* or the issued token signed with another key.                           *)
Endpoints == {"me", "update_profile", "generate", "list", "get", "download",
              "send-email", "update", "delete"}

Forged(token) == [token EXCEPT !.key = "OTHER_KEY"]

Credentials ==
    {NoCredential, MalformedCredential}
        \cup {h.token : h \in tokens} \cup {Forged(h.token) : h \in tokens}

\* the handler of an endpoint, run for the user the dependency returned
Handle(u, op) ==
    \/ op = "me" /\ GetCurrentUserInfo(u)
    \/ op = "update_profile" /\ UpdateProfile(u, NoValue, "Al")
    \/ op = "generate" /\ CreateInvoice(u, PlainCreate, "INV-20251005-0001", "ok")
    \/ op = "list" /\ ListInvoices(u, 1, 10, NoValue)
    \/ op = "get" /\ \E id \in IdRange : GetInvoice(u, id)
    \/ op = "download" /\ \E id \in IdRange : DownloadInvoice(u, id)
    \/ op = "send-email" /\ \E id \in IdRange : SendInvoiceByEmail(u, id, NoValue)
    \/ op = "update" /\ \E id \in IdRange : UpdateInvoice(u, id, StatusUpdate("paid"))
    \/ op = "delete" /\ \E id \in IdRange : DeleteInvoice(u, id)

Request(cred, op) ==
    IF get_current_user(cred) = NoUser
    THEN Unauthorized(op, cred)
    ELSE Handle(get_current_user(cred), op)

NextGate ==
    \/ /\ tokens = {}
       /\ CreateAccessToken(users[1].username, 1, <<ACCESS_TOKEN_EXPIRE_MINUTES>>)
    \/ \E cred \in Credentials, op \in Endpoints : Request(cred, op)
    \/ Tick

SpecGate == InitLedger /\ [][NextGate]_vars

----------------------------------------------------------------------------
(* Claims on the invoice endpoints *)

C2_RateLimitBoundary ==
    [][ resp'.op = "send" =>
          LET u == resp'.user
              sent == {i \in DOMAIN invoices :
                          /\ invoices[i].user_id = u
                          /\ invoices[i].is_sent_email
                          /\ invoices[i].email_sent_at[1] - tz >= now - 60}
          IN  Cardinality(sent) = settings.EMAIL_RATE_LIMIT
                => resp'.status = 429 ]_vars

\* C3: a send-email request for an owned invoice with a PDF, made when fewer
\* than `limit` of the user's sends lie within the trailing hour, succeeds;
\* and the time an accepted send stores is the time on the clock that the
\* threshold of the check is taken from (UTC).  Checked under SpecRate.
C3_RateLimitRecovery ==
    [][ resp'.op = "send" =>
          LET u == resp'.user
              id == resp'.id
              sent == {i \in DOMAIN invoices :
                          /\ invoices[i].user_id = u
                          /\ invoices[i].is_sent_email
                          /\ invoices[i].email_sent_at[1] - tz >= now - 60}
          IN  /\ (/\ id \in DOMAIN invoices
                  /\ invoices[id].user_id = u
                  /\ invoices[id].pdf_path # NoPath
                  /\ Cardinality(sent) < settings.EMAIL_RATE_LIMIT)
                 => resp'.status = 200
              /\ resp'.status = 200
                 => invoices'[id].email_sent_at = <<now>> ]_vars

\* C4: an accepted send-email turns the status "draft" into "sent" and
\* leaves every other status as it was; it sets is_sent_email and
\* email_sent_at.  Checked under SpecSend.
C4_StatusOnSend ==
    [][ (resp'.op = "send" /\ resp'.status = 200) =>
          LET before == invoices[resp'.id]
              after == invoices'[resp'.id]
          IN  /\ before.status = "draft" => after.status = "sent"
              /\ before.status # "draft" => after.status = before.status
              /\ after.is_sent_email
              /\ after.email_sent_at # NoTime ]_vars

\* an invoice marked paid was sent: it is still paid, and marked as sent
C4_Witness ==
    /\ resp.op = "send"
    /\ resp.status = 200
    /\ invoices[resp.id].status = "paid"
    /\ invoices[resp.id].is_sent_email

\* C5 (as amended): a delete of an owned invoice is answered 204, with or
\* without its files on disk; it removes the row and the PDF and QR file
\* and touches no other file; a fetch of an id that is not in the table is
\* answered 404; and an id comes back into the table only through an
\* accepted create that is given that id.  Checked under SpecDelete.
C5_DeleteSideEffects ==
    [][ /\ (/\ resp'.op = "delete"
            /\ resp'.id \in DOMAIN invoices
            /\ invoices[resp'.id].user_id = resp'.user)
           => LET row == invoices[resp'.id]
                  own == {row.pdf_path, row.qr_code_path}
              IN  /\ resp'.status = 204
                  /\ resp'.id \notin DOMAIN invoices'
                  /\ DOMAIN files' = DOMAIN files \ own
                  /\ \A f \in DOMAIN files' : files'[f] = files[f]
        /\ (resp'.op = "get" /\ resp'.id \notin DOMAIN invoices)
           => resp'.status = 404
        /\ \A i \in DOMAIN invoices' \ DOMAIN invoices :
              resp'.op = "create" /\ resp'.status = 201 /\ resp'.id = i
      ]_vars

\* an invoice was deleted when one of its files was no longer on disk
C5_Witness ==
    /\ resp.op = "delete"
    /\ resp.status = 204
    /\ Cardinality(resp.unlinked) < 2
    /\ resp.id \notin DOMAIN invoices

\* C5 as stated: once a user's delete of an id was answered 204, every later
\* fetch of that id by that user is answered 404.
C5_DeleteThenAlways404 ==
    (resp.op = "get" /\ <<resp.user, resp.id>> \in deleted)
        => resp.status = 404

\* C11: an accepted update leaves items, the amounts and rates, the invoice
\* number, the owner, language, currency and the file paths of the row as
\* they were; each of client_name, client_email, client_phone,
\* client_address, status, notes and due_date takes the value of the request
\* when the request has one and keeps its value when it has none; no other
\* row and no file changes.  Checked under SpecUpdate.
C11_UpdateFrame ==
    [][ (resp'.op = "update" /\ resp'.status = 200) =>
          LET old == invoices[resp'.id]
              new == invoices'[resp'.id]
              upd == resp'.data
          IN  /\ DOMAIN invoices' = DOMAIN invoices
              /\ DOMAIN new = DOMAIN old
              /\ \A f \in {"items", "subtotal", "tax_rate", "tax_amount",
                           "discount_rate", "discount_amount", "total",
                           "invoice_number", "user_id", "language",
                           "currency", "pdf_path", "qr_code_path"} :
                    new[f] = old[f]
              /\ \A f \in {"client_name", "client_email", "client_phone",
                           "client_address", "status", "notes"} :
                    new[f] = IF upd[f] = NoValue THEN old[f] ELSE upd[f]
              /\ new.due_date = IF upd.due_date = NoTime THEN old.due_date
                                ELSE upd.due_date
              /\ \A i \in DOMAIN invoices \ {resp'.id} :
                    invoices'[i] = invoices[i]
              /\ files' = files ]_vars

\* an update of the name and the status was accepted for an invoice whose
\* notes and due date had been set before: they are still set
C11_Witness ==
    /\ resp.op = "update"
    /\ resp.status = 200
    /\ resp.data.status = "paid"
    /\ resp.data.notes = NoValue
    /\ resp.data.due_date = NoTime
    /\ invoices[resp.id].status = "paid"
    /\ invoices[resp.id].notes = "received"
    /\ invoices[resp.id].due_date = <<MaxTime>>

\* C13: no two stored invoices share an invoice_number, the invoice_number
\* of a stored invoice never changes, and the number of a newly stored
\* invoice is none of the numbers issued before, whether or not the invoice
\* that had it is still stored.  Checked under SpecDelete.
C13_InvoiceNumberInvariant ==
    [][ /\ \A i, j \in DOMAIN invoices' :
              i # j => invoices'[i].invoice_number # invoices'[j].invoice_number
        /\ \A i \in DOMAIN invoices \cap DOMAIN invoices' :
              invoices'[i].invoice_number = invoices[i].invoice_number
        /\ \A i \in DOMAIN invoices' \ DOMAIN invoices :
              invoices'[i].invoice_number \notin issued ]_vars

\* C17: list answers 200; the page it reports is the requested one, or 1
\* when that is below 1; the page_size is the requested one, or 10 when that
\* is outside 1..100; total is the number of the caller's invoices that
\* match the status filter; and the items are those invoices, newest first,
\* from position (page-1)*page_size up to page*page_size.  Checked under
\* SpecList.
C17_Pagination ==
    resp.op = "list" =>
        LET p == IF resp.page < 1 THEN 1 ELSE resp.page
            ps == IF resp.page_size \in 1..100 THEN resp.page_size ELSE 10
            mine == {i \in DOMAIN invoices :
                        /\ invoices[i].user_id = resp.user
                        /\ resp.filter # NoValue
                              => invoices[i].status = resp.filter}
            items == resp.returned.invoices
            Newer(i) == {j \in mine :
                            invoices[j].created_at > invoices[i].created_at}
            NotOlder(i) == {j \in mine :
                            invoices[j].created_at >= invoices[i].created_at}
        IN  /\ resp.status = 200
            /\ resp.returned.page = p
            /\ resp.returned.page_size = ps
            /\ resp.returned.total = Cardinality(mine)
            /\ \A k \in DOMAIN items : items[k] \in mine
            /\ \A k, l \in DOMAIN items : k # l => items[k] # items[l]
            /\ Len(items) =
                 IF Cardinality(mine) >= p * ps THEN ps
                 ELSE IF Cardinality(mine) > (p - 1) * ps
                 THEN Cardinality(mine) - (p - 1) * ps ELSE 0
            /\ \A k \in DOMAIN items :
                  /\ Cardinality(Newer(items[k])) < (p - 1) * ps + k
                  /\ Cardinality(NotOlder(items[k])) >= (p - 1) * ps + k

C20_UsernameNormalized ==
    /\ \A i \in UserIds : users[i].username = Lower(users[i].username)
    /\ \A i, j \in UserIds :
          i # j => Lower(users[i].username) # Lower(users[j].username)

\* C19: the health check reports unhealthy with 503 whenever its database
\* check or its filesystem check failed, and healthy with 200 exactly when
\* both succeeded, whatever the email check says.  Checked under SpecHealth.
C19_HealthCheck ==
    resp.op = "health" =>
        LET checks == resp.content.checks
            bothOk == /\ checks.database = "healthy"
                      /\ checks.filesystem = "healthy"
        IN  /\ ~bothOk => (resp.content.status = "unhealthy" /\ resp.status = 503)
            /\ (resp.content.status = "healthy" /\ resp.status = 200) <=> bothOk

\* C21: an update of the profile that asks for an email another account
\* holds is answered 400 and leaves every user row as it was, whatever else
\* the request carries; after any update of the profile no two users have
\* the same email.  Checked under SpecAuth.
C21_ProfileEmailChange ==
    [][resp'.op = "update_profile" =>
          /\ (\E j \in UserIds : /\ j # resp'.user
                                 /\ users[j].email = resp'.data.email)
                => (resp'.status = 400 /\ users' = users)
          /\ \A i, j \in DOMAIN users' :
                i # j => users'[i].email # users'[j].email]_vars

\* the second user asks for the first user's email and a new full name in
\* one request, is answered 400, and keeps the old full name
C21_Witness ==
    /\ resp.op = "update_profile"
    /\ resp.status = 400
    /\ resp.user = 2
    /\ resp.data.email = users[1].email
    /\ resp.data.full_name = "New Name"
    /\ users[2] = resp.before
    /\ users[2].full_name # "New Name"

\* C22: a send-email answered 200 has, in the same step, set is_sent_email
\* and email_sent_at, promoted a draft to sent and left the delivery
\* pending; and the delivery, however it ends, changes no invoice, so the
\* mark stays and the answer given stays 200.  Checked under SpecSend.
C22_OptimisticSendMarking ==
    [][/\ (resp'.op = "send" /\ resp'.status = 200) =>
             /\ invoices'[resp'.id].is_sent_email
             /\ invoices'[resp'.id].email_sent_at # NoTime
             /\ invoices'[resp'.id].status # "draft"
             /\ invoices'[resp'.id].invoice_number \in tasks'
       /\ resp'.op = "email_task" =>
             /\ invoices' = invoices
             /\ \A i \in DOMAIN invoices :
                   invoices[i].invoice_number = resp'.number
                      => invoices'[i].is_sent_email]_vars

\* the email task of a sent invoice raised, and the invoice is still marked
\* as sent
C22_Witness ==
    /\ resp.op = "email_task"
    /\ resp.outcome = "exception"
    /\ \E i \in DOMAIN invoices :
          /\ invoices[i].invoice_number = resp.number
          /\ invoices[i].is_sent_email
          /\ invoices[i].status = "sent"

\* C23: for every accepted create, the subtotal, discount_amount,
\* tax_amount and total stored in the row are the ones printed on the PDF
\* written for it.  Checked under SpecArith.
C23_OneArithmetic ==
    (resp.op = "create" /\ resp.status = 201) =>
        LET r == invoices[resp.id]
            page == files[r.pdf_path]
        IN  /\ page.subtotal = r.subtotal
            /\ page.discount_amount = r.discount_amount
            /\ page.tax_amount = r.tax_amount
            /\ page.total = r.total

\* an invoice of two items with a discount and a tax was created, and its
\* PDF prints the stored total 45.89
C23_Witness ==
    /\ resp.op = "create"
    /\ resp.status = 201
    /\ Len(resp.data.items) = 2
    /\ resp.data.discount_rate = 15
    /\ invoices[resp.id].total = 4589
    /\ files[invoices[resp.id].pdf_path].total = 4589

\* C24: a create request never writes to the PDF path or the QR path of
\* another invoice: the paths it writes are those of no stored invoice.
\* Checked under SpecDelete.
C24_FileKeying ==
    [][(resp'.op = "create" /\ resp'.status # 422) =>
          \A i \in DOMAIN invoices :
             /\ invoices[i].pdf_path # PdfPath(resp'.number)
             /\ invoices[i].qr_code_path # QrPath(resp'.number)]_vars

\* C25: for every string, sanitize_filename returns only letters, digits,
\* "-", "_" and "."; no path separator; not the traversal segment "..";
\* no two underscores in a row; and, after the last dot, the sanitized
\* extension of the input ("test file.pdf" gives "test_file.pdf").
\* Checked under SpecSanitize.
C25_FilenameSanitization ==
    resp.op = "sanitize_filename" =>
        LET in == resp.filename
            out == resp.result
            Ext(str) == SubSeq(str, LastDot(str) + 1, Len(str))
        IN  /\ \A k \in 1..Len(out) : out[k] \in safe_chars
            /\ \A k \in 1..Len(out) : out[k] \notin {"/", "\\"}
            /\ out # <<".", ".">>
            /\ \A k \in 1..(Len(out) - 1) : ~(out[k] = "_" /\ out[k + 1] = "_")
            /\ (Dots(in) # {} /\ Ext(in) # <<>>) =>
                  /\ Dots(out) # {}
                  /\ Ext(out) = CollapseUnderscores(ReplaceUnsafe(Ext(in)))
            /\ (in = <<"t", "e", "s", "t", " ", "f", "i", "l", "e", ".",
                       "p", "d", "f">> /\ resp.max_length = DefaultMaxLength)
                  => out = <<"t", "e", "s", "t", "_", "f", "i", "l", "e", ".",
                             "p", "d", "f">>

\* C26: a create whose request has both dates, the due date before the
\* issue date, is answered 422 and stores nothing; and every stored invoice
\* with a due date has it at or after its stored issue date.  Checked under
\* SpecDates.
C26_DueDateOrdering ==
    /\ (/\ resp.op = "create"
        /\ resp.data.issue_date # NoTime
        /\ resp.data.due_date # NoTime
        /\ resp.data.due_date[1] < resp.data.issue_date[1])
          => resp.status = 422
    /\ \A i \in DOMAIN invoices :
          invoices[i].due_date # NoTime
             => invoices[i].due_date[1] >= invoices[i].issue_date[1]

\* C27: a send-email answered 429, 404 or 400 schedules no email task and
\* leaves every invoice as it was; and the rate limit is checked first: a
\* request is answered 404 or 400 only when its user has fewer than `limit`
\* sends within the trailing hour, and 400 only for an owned invoice.
\* Checked under SpecRate.
C27_SendRejectionNoTrace ==
    [][ resp'.op = "send" =>
          LET u == resp'.user
              sent == {i \in DOMAIN invoices :
                          /\ invoices[i].user_id = u
                          /\ invoices[i].is_sent_email
                          /\ invoices[i].email_sent_at[1] - tz >= now - 60}
              owned == /\ resp'.id \in DOMAIN invoices
                       /\ invoices[resp'.id].user_id = u
          IN  /\ resp'.status \in {429, 404, 400}
                    => (tasks' = tasks /\ invoices' = invoices)
              /\ resp'.status \in {404, 400}
                    => Cardinality(sent) < settings.EMAIL_RATE_LIMIT
              /\ resp'.status = 404 => ~owned
              /\ resp'.status = 400 => owned ]_vars

\* C28: the count of validate_email_rate_limit follows the accepted sends:
\* while the clock stands, a send-email answered 200 raises the count of
\* its user by one, also for an invoice that was sent before, and a delete
\* leaves every count as it is, also the delete of a sent invoice; and a
\* send is accepted only below the limit.  Checked under SpecLedger.
C28_RateLimitCountsSends ==
    [][\A u \in UserIds :
          /\ (resp'.op = "send" /\ resp'.status = 200 /\ resp'.user = u) =>
                /\ (validate_email_rate_limit(u).count)'
                      = validate_email_rate_limit(u).count + 1
                /\ validate_email_rate_limit(u).count
                      < settings.EMAIL_RATE_LIMIT
          /\ (resp'.op = "delete" /\ resp'.status = 204) =>
                (validate_email_rate_limit(u).count)'
                   = validate_email_rate_limit(u).count ]_vars

\* C29: a create that commits no row (it is not answered 201) leaves the
\* invoices and the files as they were: no new row, no new file, and every
\* file that was there keeps its content.  Checked under SpecSend.
C29_FailedCreateAtomic ==
    [][(resp'.op = "create" /\ resp'.status # 201) =>
          /\ invoices' = invoices
          /\ DOMAIN files' = DOMAIN files
          /\ \A f \in DOMAIN files : files'[f] = files[f]]_vars

\* C30: after every step each stored invoice has a pdf_path and a
\* qr_code_path, both written (they are there when its create is answered
\* and stay there); download never answers "PDF not generated yet" and
\* send-email never answers "PDF not generated"; and an invoice that stays
\* stored keeps its two paths.  Checked under SpecArtifacts.
C30_ArtifactsPrecedeRow ==
    [][/\ \A i \in DOMAIN invoices' :
             /\ invoices'[i].pdf_path # NoPath
             /\ invoices'[i].qr_code_path # NoPath
             /\ invoices'[i].pdf_path \in DOMAIN files'
             /\ invoices'[i].qr_code_path \in DOMAIN files'
       /\ resp'.op = "download" => resp'.detail # "PDF not generated yet"
       /\ resp'.op = "send" => resp'.detail # "PDF not generated"
       /\ \A i \in DOMAIN invoices \cap DOMAIN invoices' :
             /\ invoices'[i].pdf_path = invoices[i].pdf_path
             /\ invoices'[i].qr_code_path = invoices[i].qr_code_path]_vars

\* an invoice that was sent and then marked paid is downloaded, after
\* another invoice was deleted
C30_Witness ==
    /\ resp.op = "download"
    /\ resp.status = 200
    /\ invoices[resp.id].is_sent_email
    /\ invoices[resp.id].status = "paid"
    /\ invoices[resp.id].pdf_path \in DOMAIN files
    /\ deleted # {}

----------------------------------------------------------------------------
(* Claims on tokens, checked under SpecToken *)

\* C14: a token made with a lifetime that is zero or negative never decodes;
\* a token made with a positive lifetime L decodes only while fewer than L
\* minutes have passed since it was made.
C14_TokenExpiry ==
    (resp.op = "decode" /\ resp.held.expires_delta # NoDelta) =>
        LET L == resp.held.expires_delta[1]
            elapsed == now - resp.held.created
        IN  /\ L <= 0 => resp.payload = <<>>
            /\ (L > 0 /\ resp.payload # <<>>) => elapsed < L

----------------------------------------------------------------------------
(* Claims on password hashing, checked under SpecPassword *)

C16_WrongPasswordRejected ==
    (resp.op = "verify_password" /\ resp.candidate # resp.password)
        => ~resp.result

----------------------------------------------------------------------------
(* Claims on registration and login, checked under SpecAuth *)

C7_RegisterThenLogin ==
    \A a \in accepted :
        users[a.id].is_active =>
            /\ LoginOutcome(a.username, a.password).status = 200
            /\ LoginOutcome(a.username, a.password).token_type = "bearer"
            /\ Len(LoginOutcome(a.username, a.password).token) = 1

\* a login 200 for an account registered with an upper-case letter and a
\* password of more than 72 bytes
C7_Witness ==
    /\ resp.op = "login"
    /\ resp.status = 200
    /\ resp.token_type = "bearer"
    /\ resp.username = "Alice"
    /\ resp.password.bytes > BcryptMaxBytes
    /\ \E a \in accepted : a.username = resp.username /\ a.password = resp.password

C9_InactiveLoginForbidden ==
    /\ \A a \in accepted :
         ~users[a.id].is_active =>
            /\ LoginOutcome(a.username, a.password).status = 403
            /\ LoginOutcome(a.username, a.password).token = <<>>
    /\ (resp.op = "login" /\ resp.status = 403) => resp.token = <<>>

\* a login with the registered pair was answered 403
C9_Witness ==
    /\ resp.op = "login"
    /\ resp.status = 403
    /\ \E a \in accepted : /\ a.username = resp.username
                           /\ a.password = resp.password
                           /\ ~users[a.id].is_active

----------------------------------------------------------------------------
(* Claims on the arithmetic of create, checked under SpecArith *)

====
